---- MODULE Spec2Model ----
(***************************************************************************)
(* A model of the rsbackup server: the files under the backup root, the    *)
(* five HTTP handlers (list, check, submit, retrieve, repair) and the      *)
(* helpers of RSFileManager they call.  File names are sequences of        *)
(* one-character strings, so that the naming scheme ("<name>.md",          *)
(* "<name>.parity.<i>"), the parity filter of ListData and the sort order  *)
(* are computed, not assumed.                                              *)
(***************************************************************************)
EXTENDS Integers, Sequences, FiniteSets, TLC

VARIABLES
    fs,      \* the backup root: file name -> file content
    cfg,     \* Config.DataShards / Config.ParityShards of the running server
    last,    \* the last request served (or event of the environment) and its response
    orig,    \* history: record name -> content of the Submit that returned 200
    asked,   \* history: the filename fields of the submit requests that passed validation
    procs,   \* in-flight submit requests, one per request id (concurrent model)
    upload   \* the file the client of the single-record model has to back up

vars == <<fs, cfg, last, orig, asked, procs, upload>>

----------------------------------------------------------------------------
(* Bounds                                                                  *)

MaxLen == 3        \* longest submitted content, in bytes
MaxCorrupt == 2    \* stored bytes that are bad at the same time
MaxFiles == 4      \* files in a directory that is listed
NProcs == 2        \* submit requests in flight at the same time

----------------------------------------------------------------------------
(* Strings                                                                 *)

\* The characters used, in ascending byte order.
Alphabet ==
    <<".", "/", "0", "1", "2", "3", "4", "5", "6", "7", "8", "9",
      "a", "b", "c", "d", "e", "f", "i", "l", "m", "p", "r", "t", "x", "y", "_">>

Digits == <<"0", "1", "2", "3", "4", "5", "6", "7", "8", "9">>

IsDigit(c) == \E i \in 1..Len(Digits) : Digits[i] = c

Ord(c) == CHOOSE i \in 1..Len(Alphabet) : Alphabet[i] = c

\* Go's s < t on strings: bytewise lexicographic.
RECURSIVE StrLess(_, _)
StrLess(s, t) ==
    IF s = <<>> THEN t # <<>>
    ELSE IF t = <<>> THEN FALSE
    ELSE IF Head(s) = Head(t) THEN StrLess(Tail(s), Tail(t))
    ELSE Ord(Head(s)) < Ord(Head(t))

\* fmt's %d for n >= 0.
RECURSIVE Itoa(_)
Itoa(n) ==
    IF n < 10 THEN <<Digits[n + 1]>>
    ELSE Itoa(n \div 10) \o <<Digits[(n % 10) + 1]>>

\* strings.Split(s, "/")
RECURSIVE SplitSlash(_)
SplitSlash(s) ==
    IF \A i \in 1..Len(s) : s[i] # "/" THEN <<s>>
    ELSE LET k == CHOOSE i \in 1..Len(s) :
                      s[i] = "/" /\ \A j \in 1..(i - 1) : s[j] # "/"
         IN  <<SubSeq(s, 1, k - 1)>> \o SplitSlash(SubSeq(s, k + 1, Len(s)))

\* strings.ContainsAny(s, "/")
ContainsSlash(s) == \E i \in 1..Len(s) : s[i] = "/"

MdSuffix == <<".", "m", "d">>
ParityWord == <<"p", "a", "r", "i", "t", "y", ".">>

\* fpath + ".md"
MdPath(fpath) == fpath \o MdSuffix

\* fmt.Sprintf("%s.parity.%d", fpath, i), i the 1-based parity index
ParityPath(fpath, i) == fpath \o <<".">> \o ParityWord \o Itoa(i)

\* Number of digits the name ends in.
RECURSIVE TrailingDigits(_)
TrailingDigits(s) ==
    IF s = <<>> \/ ~IsDigit(s[Len(s)]) THEN 0
    ELSE 1 + TrailingDigits(SubSeq(s, 1, Len(s) - 1))

\* regexp.MatchString(`.*parity\.\d+$`, name)
MatchParity(name) ==
    LET k == TrailingDigits(name)
        n == Len(name)
    IN  /\ k >= 1
        /\ n - k >= Len(ParityWord)
        /\ SubSeq(name, n - k - Len(ParityWord) + 1, n - k) = ParityWord

----------------------------------------------------------------------------
(* Sorting and listing                                                     *)

\* sort.Slice(names, less): the sorted permutation, built by insertion.
RECURSIVE InsertSorted(_, _)
InsertSorted(x, s) ==
    IF s = <<>> THEN <<x>>
    ELSE IF StrLess(x, Head(s)) THEN <<x>> \o s
    ELSE <<Head(s)>> \o InsertSorted(x, Tail(s))

RECURSIVE SortNames(_)
SortNames(s) ==
    IF s = <<>> THEN <<>> ELSE InsertSorted(Head(s), SortNames(Tail(s)))

\* dir.Readdirnames(-1): the entries in directory order, which is any order.
Readdirnames(f) ==
    LET S == DOMAIN f
        n == Cardinality(S)
    IN  {s \in [1..n -> S] : \A i, j \in 1..n : i # j => s[i] # s[j]}

\* a listing that forgets the sort
ListDataUnsorted(names) == SelectSeq(names, LAMBDA x : ~MatchParity(x))

\* ListData on the result of Readdirnames: filter, then sort.
ListData(names) == SortNames(SelectSeq(names, LAMBDA x : ~MatchParity(x)))

----------------------------------------------------------------------------
(* Files                                                                   *)

Byte == {0, 1, 2}          \* the codec's field, here the integers modulo 3
Q == Cardinality(Byte)

NoMd == [size |-> 0, dataShards |-> 0, parityShards |-> 0, hashes |-> <<>>]

\* A file holds bytes, or the JSON encoding of a Metadata value.
Raw(b) == [kind |-> "raw", bytes |-> b, md |-> NoMd]
Json(md) == [kind |-> "json", bytes |-> <<>>, md |-> md]
NoFile == [kind |-> "none", bytes |-> <<>>, md |-> NoMd]

\* os.OpenFile(p, O_WRONLY|O_CREATE|O_EXCL): an empty file, or EEXIST; the
\* root has no subdirectories, so a path through one is ENOENT.
CreateExcl(f, p) ==
    IF p \in DOMAIN f THEN [fs |-> f, err |-> "EEXIST"]
    ELSE IF ContainsSlash(p) THEN [fs |-> f, err |-> "ENOENT"]
    ELSE [fs |-> (p :> Raw(<<>>)) @@ f, err |-> "nil"]

\* an open that creates the file when it is missing (O_RDWR|O_CREATE)
OpenCreate(f, p) ==
    IF p \in DOMAIN f THEN [fs |-> f, err |-> "nil"]
    ELSE [fs |-> (p :> Raw(<<>>)) @@ f, err |-> "nil"]

\* os.Open(p): read-only; a missing file is ENOENT and stays missing
OpenRead(f, p) ==
    IF p \in DOMAIN f THEN [fs |-> f, err |-> "nil"] ELSE [fs |-> f, err |-> "ENOENT"]

\* the content of the file after its writer wrote c and closed it
WriteAll(f, p, c) == [f EXCEPT ![p] = c]

\* the paths whose file g has and f has not, or holds other content in
Changed(f, g) ==
    {p \in DOMAIN f \cup DOMAIN g :
        \/ p \notin DOMAIN f
        \/ p \notin DOMAIN g
        \/ f[p] # g[p]}

----------------------------------------------------------------------------
(* rsutils: padded chunks and the erasure code                             *)

\* the content hash of a shard (collision free)
Hash(shard) == [sha256 |-> shard]

\* floor(size / n)
ShardSizeFloor(size, n) == size \div n

\* ceil(size / n)
ShardSize(size, n) == (size + n - 1) \div n

\* Window k (1-based) of n over a file of `size` bytes: shardSize bytes, the
\* bytes past size (or past the end of the file) read as zero.
ReadWindow(bytes, size, n, k) ==
    LET ss == ShardSize(size, n)
    IN  [p \in 1..ss |->
            LET off == (k - 1) * ss + p
            IN  IF off <= size /\ off <= Len(bytes) THEN bytes[off] ELSE 0]

SplitIntoPaddedChunks(bytes, size, n) ==
    [k \in 1..n |-> ReadWindow(bytes, size, n, k)]

\* WriteAt: w written at byte offset lo of a file; the file grows to hold it
\* and a gap before lo is filled with zeros.
OverwriteAt(bytes, lo, w) ==
    LET hi == lo + Len(w)
        m == IF Len(bytes) > hi THEN Len(bytes) ELSE hi
    IN  [i \in 1..m |->
            IF i > lo /\ i <= hi THEN w[i - lo]
            ELSE IF i <= Len(bytes) THEN bytes[i] ELSE 0]

\* a shard writer that does not seek to the window's offset
WriteWindowAtZero(bytes, size, n, k, w) == OverwriteAt(bytes, 0, w)

\* Writing shard w to window k of the file: exactly shardSize bytes at the
\* window's offset.
WriteWindow(bytes, size, n, k, w) ==
    OverwriteAt(bytes, (k - 1) * ShardSize(size, n), w)

RECURSIVE Pow(_, _)
Pow(b, e) == IF e = 0 THEN 1 ELSE (b * Pow(b, e - 1)) % Q

\* Coefficient of data shard i in parity shard j: row j of a Vandermonde matrix.
Coef(j, i) == Pow(j, i - 1)

RECURSIVE Dot(_, _, _)
Dot(j, d, i) ==
    IF i = 0 THEN 0 ELSE (Dot(j, d, i - 1) + Coef(j, i) * d[i]) % Q

\* Symbol k of the code word of the data symbols d (k <= Len(d): data, else parity).
CodeSymbol(d, k) == IF k <= Len(d) THEN d[k] ELSE Dot(k - Len(d), d, Len(d))

\* Parity shard j of the data shards.
ParityShard(data, j) ==
    [p \in 1..Len(data[1]) |->
        Dot(j, [i \in 1..Len(data) |-> data[i][p]], Len(data))]

\* ShardCreator.Encode: the parity shards and the metadata of the record.
Encode(data, size, nData, nParity) ==
    LET parity == [j \in 1..nParity |-> ParityShard(data, j)]
        shards == data \o parity
    IN  [parity |-> parity,
         md |-> [size |-> size, dataShards |-> nData, parityShards |-> nParity,
                 hashes |-> [k \in 1..Len(shards) |-> Hash(shards[k])]]]

\* ShardManager.CheckHealth: the indices of the shards whose hash differs.
CorruptShards(shards, md) ==
    {k \in 1..Len(shards) :
        k > Len(md.hashes) \/ Hash(shards[k]) # md.hashes[k]}

\* The shards rebuilt from the healthy ones, symbol by symbol.
Reconstruct(shards, bad, nData) ==
    LET good == (1..Len(shards)) \ bad
        ss == Len(shards[CHOOSE k \in good : TRUE])
        DataAt(p) == CHOOSE d \in [1..nData -> Byte] :
                         \A k \in good : CodeSymbol(d, k) = shards[k][p]
    IN  [k \in 1..Len(shards) |->
            IF k \in bad THEN [p \in 1..ss |-> CodeSymbol(DataAt(p), k)]
            ELSE shards[k]]

----------------------------------------------------------------------------
(* RSFileManager                                                           *)

\* a ReadMetadata that makes up the metadata of a record that has none
ReadMetadataGuess(f, fpath) ==
    LET mdPath == MdPath(fpath)
        guess == [size |-> 0, dataShards |-> 1, parityShards |-> 0, hashes |-> <<>>]
    IN  IF mdPath \notin DOMAIN f THEN [err |-> "nil", md |-> guess]
        ELSE IF f[mdPath].kind # "json" THEN [err |-> "decode", md |-> NoMd]
        ELSE [err |-> "nil", md |-> f[mdPath].md]

\* ReadMetadata: the decoded metadata of the record at fpath.
ReadMetadata(f, fpath) ==
    LET mdPath == MdPath(fpath)
    IN  IF mdPath \notin DOMAIN f THEN [err |-> "Metadata not found", md |-> NoMd]
        ELSE IF f[mdPath].kind # "json" THEN [err |-> "decode", md |-> NoMd]
        ELSE [err |-> "nil", md |-> f[mdPath].md]

\* a WriteMetadata that opens the file with O_TRUNC in place of O_EXCL
WriteMetadataTrunc(f, fname, md) ==
    IF ContainsSlash(fname) THEN [fs |-> f, err |-> "ENOENT"]
    ELSE [fs |-> (MdPath(fname) :> Json(md)) @@ f, err |-> "nil"]

\* WriteMetadata: exclusive create of "<name>.md", then the JSON encoding.
WriteMetadata(f, fname, md) ==
    LET c == CreateExcl(f, MdPath(fname))
    IN  IF c.err # "nil" THEN [fs |-> f, err |-> c.err]
        ELSE [fs |-> WriteAll(c.fs, MdPath(fname), Json(md)), err |-> "nil"]

\* an open of the primary file with O_TRUNC in place of O_EXCL
SaveFileOpenTrunc(f, fname) ==
    IF ContainsSlash(fname) THEN [fs |-> f, err |-> "ENOENT"]
    ELSE [fs |-> (fname :> Raw(<<>>)) @@ f, err |-> "nil"]

\* SaveFile's os.OpenFile(dstPath, O_WRONLY|O_CREATE|O_EXCL)
SaveFileOpen(f, fname) == CreateExcl(f, fname)

\* SaveFile: exclusive create of the primary file, then io.Copy of the upload.
SaveFile(f, content, fname) ==
    LET c == SaveFileOpen(f, fname)
    IN  IF c.err # "nil" THEN [fs |-> f, path |-> <<>>, err |-> c.err]
        ELSE [fs |-> WriteAll(c.fs, fname, Raw(content)), path |-> fname, err |-> "nil"]

\* The parity files GenerateParityFiles creates, in order, until one exists.
RECURSIVE CreateParityFiles(_, _, _, _)
CreateParityFiles(f, dataFilePath, i, nParity) ==
    IF i > nParity THEN [fs |-> f, err |-> "nil"]
    ELSE LET c == CreateExcl(f, ParityPath(dataFilePath, i))
         IN  IF c.err # "nil" THEN [fs |-> f, err |-> c.err]
             ELSE CreateParityFiles(c.fs, dataFilePath, i + 1, nParity)

\* What Encode writes to the parity writers.
RECURSIVE WriteParityShards(_, _, _, _)
WriteParityShards(f, dataFilePath, parity, j) ==
    IF j = 0 THEN f
    ELSE WriteParityShards(WriteAll(f, ParityPath(dataFilePath, j), Raw(parity[j])),
                           dataFilePath, parity, j - 1)

\* a GenerateParityFiles whose parity writers receive nothing
GenerateParityFilesEmpty(f, dataFilePath, c) ==
    LET bytes == f[dataFilePath].bytes
        created == CreateParityFiles(f, dataFilePath, 1, c.ParityShards)
        enc == Encode(SplitIntoPaddedChunks(bytes, Len(bytes), c.DataShards),
                      Len(bytes), c.DataShards, c.ParityShards)
    IN  IF created.err # "nil" THEN [fs |-> created.fs, md |-> NoMd, err |-> created.err]
        ELSE [fs |-> created.fs, md |-> enc.md, err |-> "nil"]

\* GenerateParityFiles: split the stored file, create the parity files, encode.
GenerateParityFiles(f, dataFilePath, c) ==
    LET bytes == f[dataFilePath].bytes
        dataFileSize == Len(bytes)
        dataChunks == SplitIntoPaddedChunks(bytes, dataFileSize, c.DataShards)
        created == CreateParityFiles(f, dataFilePath, 1, c.ParityShards)
        enc == Encode(dataChunks, dataFileSize, c.DataShards, c.ParityShards)
    IN  IF created.err # "nil" THEN [fs |-> created.fs, md |-> NoMd, err |-> created.err]
        ELSE [fs |-> WriteParityShards(created.fs, dataFilePath, enc.parity,
                                       c.ParityShards),
              md |-> enc.md, err |-> "nil"]

\* The shards CheckData hands to the ShardManager: the data windows of the
\* primary file (by the metadata's size and counts), then the parity files.
ShardsOf(f, fpath, md) ==
    SplitIntoPaddedChunks(f[fpath].bytes, md.size, md.dataShards)
        \o [i \in 1..md.parityShards |-> f[ParityPath(fpath, i)].bytes]

\* The files after the os.Open calls of the parity loop, which stops at the
\* first parity file that cannot be opened.
RECURSIVE OpenParityFiles(_, _, _, _)
OpenParityFiles(f, fpath, i, nParity) ==
    IF i > nParity THEN f
    ELSE LET o == OpenRead(f, ParityPath(fpath, i))
         IN  IF o.err # "nil" THEN o.fs
             ELSE OpenParityFiles(o.fs, fpath, i + 1, nParity)

\* The files after CheckData: it opens the data file, the metadata file and
\* the parity files, and writes to none of them.
CheckDataFiles(f, fname) ==
    LET d == OpenRead(f, fname)
        m == OpenRead(d.fs, MdPath(fname))
        r == ReadMetadata(m.fs, fname)
    IN  IF d.err # "nil" THEN d.fs
        ELSE IF r.err # "nil" THEN m.fs
        ELSE OpenParityFiles(m.fs, fname, 1, r.md.parityShards)

\* a CheckData that numbers the parity files from 0
CheckDataFromZero(f, fname) ==
    LET r == ReadMetadata(f, fname)
        Fail(e) == [health |-> FALSE, hashes |-> <<>>, err |-> e]
    IN  IF fname \notin DOMAIN f THEN Fail("File not found")
        ELSE IF r.err # "nil" THEN Fail(r.err)
        ELSE IF \E i \in 0..(r.md.parityShards - 1) : ParityPath(fname, i) \notin DOMAIN f
             THEN Fail("ENOENT")
        ELSE [health |-> CorruptShards(ShardsOf(f, fname, r.md), r.md) = {},
              hashes |-> r.md.hashes, err |-> "nil"]

\* a CheckData that hands only the data shards to the ShardManager
CheckDataDataOnly(f, fname) ==
    LET r == ReadMetadata(f, fname)
        Fail(e) == [health |-> FALSE, hashes |-> <<>>, err |-> e]
        data == SplitIntoPaddedChunks(f[fname].bytes, r.md.size, r.md.dataShards)
    IN  IF fname \notin DOMAIN f THEN Fail("File not found")
        ELSE IF r.err # "nil" THEN Fail(r.err)
        ELSE IF \E i \in 1..r.md.parityShards : ParityPath(fname, i) \notin DOMAIN f
             THEN Fail("ENOENT")
        ELSE [health |-> \A k \in 1..Len(data) : Hash(data[k]) = r.md.hashes[k],
              hashes |-> r.md.hashes, err |-> "nil"]

\* a CheckData that takes the shard counts from the server's configuration
CheckDataFromConfig(f, fname) ==
    LET r == ReadMetadata(f, fname)
        Fail(e) == [health |-> FALSE, hashes |-> <<>>, err |-> e]
        md == [r.md EXCEPT !.dataShards = cfg.DataShards,
                           !.parityShards = cfg.ParityShards]
    IN  IF fname \notin DOMAIN f THEN Fail("File not found")
        ELSE IF r.err # "nil" THEN Fail(r.err)
        ELSE IF \E i \in 1..md.parityShards : ParityPath(fname, i) \notin DOMAIN f
             THEN Fail("ENOENT")
        ELSE [health |-> CorruptShards(ShardsOf(f, fname, md), md) = {},
              hashes |-> r.md.hashes, err |-> "nil"]

\* CheckData: (health, hashes, err); lmod is not modelled.
CheckData(f, fname) ==
    LET r == ReadMetadata(f, fname)
        Fail(e) == [health |-> FALSE, hashes |-> <<>>, err |-> e]
    IN  IF fname \notin DOMAIN f THEN Fail("File not found")
        ELSE IF r.err # "nil" THEN Fail(r.err)
        ELSE IF \E i \in 1..r.md.parityShards : ParityPath(fname, i) \notin DOMAIN f
             THEN Fail("ENOENT")
        ELSE [health |-> CorruptShards(ShardsOf(f, fname, r.md), r.md) = {},
              hashes |-> r.md.hashes, err |-> "nil"]

\* The files after the rebuilt shards in `bad` are written back: a data shard
\* to its window of the primary file, a parity shard to its parity file.
RECURSIVE WriteShards(_, _, _, _, _)
WriteShards(f, fname, md, rec, bad) ==
    IF bad = {} THEN f
    ELSE LET k == CHOOSE x \in bad : TRUE
             p == ParityPath(fname, k - md.dataShards)
             g == IF k <= md.dataShards
                  THEN [f EXCEPT ![fname] =
                            Raw(WriteWindow(f[fname].bytes, md.size, md.dataShards,
                                            k, rec[k]))]
                  ELSE [f EXCEPT ![p] = Raw(OverwriteAt(f[p].bytes, 0, rec[k]))]
         IN  WriteShards(g, fname, md, rec, bad \ {k})

NoErr == [text |-> "nil", corrupt |-> 0, parity |-> 0]
Err(text) == [text |-> text, corrupt |-> 0, parity |-> 0]

\* "Cannot repair data: %d shards corrupt, only have %d parity shards"
CannotRepair(k, p) == [text |-> "Cannot repair data", corrupt |-> k, parity |-> p]

\* RepairData: find the corrupt shards as CheckData does, rebuild them from the
\* healthy ones and write them back, or report that too many are corrupt.
RepairData(f, fname) ==
    LET r == ReadMetadata(f, fname)
        md == r.md
        shards == ShardsOf(f, fname, md)
        bad == CorruptShards(shards, md)
    IN  IF fname \notin DOMAIN f THEN [fs |-> f, err |-> Err("ENOENT")]
        ELSE IF r.err # "nil" THEN [fs |-> f, err |-> Err(r.err)]
        ELSE IF \E i \in 1..md.parityShards : ParityPath(fname, i) \notin DOMAIN f
             THEN [fs |-> f, err |-> Err("ENOENT")]
        ELSE IF bad = {} THEN [fs |-> f, err |-> NoErr]
        ELSE IF Cardinality(bad) > md.parityShards
             THEN [fs |-> f, err |-> CannotRepair(Cardinality(bad), md.parityShards)]
        ELSE [fs |-> WriteShards(f, fname, md,
                                 Reconstruct(shards, bad, md.dataShards), bad),
              err |-> NoErr]

\* RepairData when the codec's reconstruction reports an error: nothing is
\* written and the error is returned.
RepairDataCodecError(f, fname) ==
    LET rep == RepairData(f, fname)
        r == ReadMetadata(f, fname)
    IN  IF rep.err # NoErr THEN rep
        ELSE IF CorruptShards(ShardsOf(f, fname, r.md), r.md) = {} THEN rep
        ELSE [fs |-> f, err |-> Err("Error reconstructing data")]

----------------------------------------------------------------------------
(* The HTTP handlers                                                       *)

CheckRoute == <<"/", "c", "h", "e", "c", "k", "_", "d", "a", "t", "a", "/">>
RetrieveRoute == <<"/", "r", "e", "t", "r", "i", "e", "v", "e", "_", "d", "a", "t", "a", "/">>
RepairRoute == <<"/", "r", "e", "p", "a", "i", "r", "_", "d", "a", "t", "a", "/">>

\* getURLParam: the third part of the path, when there are exactly three.
getURLParam(urlPath) ==
    LET urlParams == SplitSlash(urlPath)
    IN  IF Len(urlParams) # 3 \/ urlParams[3] = <<>>
        THEN [val |-> <<>>, err |-> TRUE]
        ELSE [val |-> urlParams[3], err |-> FALSE]

Good == [text |-> "GOOD", corrupt |-> 0, parity |-> 0]
NoStatus == [text |-> "", corrupt |-> 0, parity |-> 0]

\* The body of a response; the fields a response does not carry keep these values.
NoBody ==
    [name |-> <<>>, health |-> FALSE, hashes |-> <<>>, rstatus |-> NoStatus,
     files |-> <<>>, content |-> NoFile, md |-> NoMd]

\* http.Error(w, http.StatusText(code), code)
HttpError(code) == [status |-> code, body |-> NoBody]

listDataHandler(names, method) ==
    IF method # "GET" THEN HttpError(405)
    ELSE [status |-> 200, body |-> [NoBody EXCEPT !.files = ListData(names)]]

\* a handler that answers 404 whenever CheckData says something was not found
checkDataHandlerNotFoundAny(f, method, urlPath) ==
    LET fname == getURLParam(urlPath)
        chk == CheckData(f, fname.val)
    IN  IF method # "GET" THEN HttpError(405)
        ELSE IF fname.err THEN HttpError(400)
        ELSE IF chk.err \in {"File not found", "Metadata not found", "ENOENT"}
             THEN HttpError(404)
        ELSE IF chk.err # "nil" THEN HttpError(500)
        ELSE [status |-> 200,
              body |-> [NoBody EXCEPT !.name = fname.val, !.health = chk.health,
                                      !.hashes = chk.hashes]]

\* a handler that looks for the file before it looks at the request
checkDataHandlerFileFirst(f, method, urlPath) ==
    LET fname == getURLParam(urlPath)
        chk == CheckData(f, fname.val)
    IN  IF chk.err = "File not found" THEN HttpError(404)
        ELSE IF method # "GET" THEN HttpError(405)
        ELSE IF fname.err THEN HttpError(400)
        ELSE IF chk.err # "nil" THEN HttpError(500)
        ELSE [status |-> 200,
              body |-> [NoBody EXCEPT !.name = fname.val, !.health = chk.health,
                                      !.hashes = chk.hashes]]

checkDataHandler(f, method, urlPath) ==
    LET fname == getURLParam(urlPath)
        chk == CheckData(f, fname.val)
    IN  IF method # "GET" THEN HttpError(405)
        ELSE IF fname.err THEN HttpError(400)
        ELSE IF chk.err = "File not found" THEN HttpError(404)
        ELSE IF chk.err # "nil" THEN HttpError(500)
        ELSE [status |-> 200,
              body |-> [NoBody EXCEPT !.name = fname.val, !.health = chk.health,
                                      !.hashes = chk.hashes]]

\* a handler that serves the file only when CheckData finds the record healthy
retrieveDataHandlerChecked(f, method, urlPath) ==
    LET fname == getURLParam(urlPath)
        chk == CheckData(f, fname.val)
    IN  IF method # "GET" THEN HttpError(405)
        ELSE IF fname.err THEN HttpError(400)
        ELSE IF fname.val \notin DOMAIN f THEN HttpError(404)
        ELSE IF chk.err # "nil" \/ ~chk.health THEN HttpError(500)
        ELSE [status |-> 200, body |-> [NoBody EXCEPT !.content = f[fname.val]]]

retrieveDataHandler(f, method, urlPath) ==
    LET fname == getURLParam(urlPath)
    IN  IF method # "GET" THEN HttpError(405)
        ELSE IF fname.err THEN HttpError(400)
        ELSE IF fname.val \notin DOMAIN f THEN HttpError(404)
        ELSE [status |-> 200, body |-> [NoBody EXCEPT !.content = f[fname.val]]]

\* The files after checkDataHandler.
checkDataFiles(f, method, urlPath) ==
    IF method # "GET" \/ getURLParam(urlPath).err THEN f
    ELSE CheckDataFiles(f, getURLParam(urlPath).val)

\* The files after retrieveDataHandler: os.Open of the primary file.
retrieveDataFiles(f, method, urlPath) ==
    IF method # "GET" \/ getURLParam(urlPath).err THEN f
    ELSE OpenRead(f, getURLParam(urlPath).val).fs

\* a handler that answers every error of RepairData with 500
repairDataHandlerAll500(f, method, urlPath) ==
    LET fname == getURLParam(urlPath)
        rep == RepairData(f, fname.val)
    IN  IF method # "GET" THEN [fs |-> f] @@ HttpError(405)
        ELSE IF fname.err THEN [fs |-> f] @@ HttpError(400)
        ELSE IF rep.err.text # "nil" THEN [fs |-> rep.fs] @@ HttpError(500)
        ELSE [fs |-> rep.fs, status |-> 200,
              body |-> [NoBody EXCEPT !.name = fname.val, !.rstatus = Good]]

\* a handler whose response does not start out with the status "GOOD"
repairDataHandlerOnNoGood(f, method, urlPath, rep) ==
    LET fname == getURLParam(urlPath)
    IN  IF method # "GET" THEN [fs |-> f] @@ HttpError(405)
        ELSE IF fname.err THEN [fs |-> f] @@ HttpError(400)
        ELSE IF rep.err.text = "ENOENT" THEN [fs |-> rep.fs] @@ HttpError(404)
        ELSE IF rep.err.text \in {"Cannot repair data", "Error reconstructing data"}
             THEN [fs |-> rep.fs, status |-> 200,
                   body |-> [NoBody EXCEPT !.name = fname.val, !.rstatus = rep.err]]
        ELSE IF rep.err.text # "nil" THEN [fs |-> rep.fs] @@ HttpError(500)
        ELSE [fs |-> rep.fs, status |-> 200,
              body |-> [NoBody EXCEPT !.name = fname.val, !.rstatus = NoStatus]]

\* repairDataHandler, given what its call of RepairData returns.
repairDataHandlerOn(f, method, urlPath, rep) ==
    LET fname == getURLParam(urlPath)
    IN  IF method # "GET" THEN [fs |-> f] @@ HttpError(405)
        ELSE IF fname.err THEN [fs |-> f] @@ HttpError(400)
        ELSE IF rep.err.text = "ENOENT" THEN [fs |-> rep.fs] @@ HttpError(404)
        ELSE IF rep.err.text \in {"Cannot repair data", "Error reconstructing data"}
             THEN [fs |-> rep.fs, status |-> 200,
                   body |-> [NoBody EXCEPT !.name = fname.val, !.rstatus = rep.err]]
        ELSE IF rep.err.text # "nil" THEN [fs |-> rep.fs] @@ HttpError(500)
        ELSE [fs |-> rep.fs, status |-> 200,
              body |-> [NoBody EXCEPT !.name = fname.val, !.rstatus = Good]]

repairDataHandler(f, method, urlPath) ==
    repairDataHandlerOn(f, method, urlPath, RepairData(f, getURLParam(urlPath).val))

\* a handler without the check for "/" in the filename
submitDataHandlerNoSlashCheck(f, c, req) ==
    LET save == SaveFile(f, req.content, req.filename)
        gen == GenerateParityFiles(save.fs, save.path, c)
        wr == WriteMetadata(gen.fs, req.filename, gen.md)
    IN  IF req.method # "POST" THEN [fs |-> f] @@ HttpError(405)
        ELSE IF ~req.multipart THEN [fs |-> f] @@ HttpError(400)
        ELSE IF ~req.hasFile THEN [fs |-> f] @@ HttpError(400)
        ELSE IF req.filename = <<>> THEN [fs |-> f] @@ HttpError(400)
        ELSE IF save.err # "nil" THEN [fs |-> save.fs] @@ HttpError(500)
        ELSE IF gen.err # "nil" THEN [fs |-> gen.fs] @@ HttpError(500)
        ELSE IF wr.err # "nil" THEN [fs |-> wr.fs] @@ HttpError(500)
        ELSE [fs |-> wr.fs, status |-> 200, body |-> [NoBody EXCEPT !.md = gen.md]]

\* a handler that removes what it created when a later step fails
submitDataHandlerRollback(f, c, req) ==
    LET save == SaveFile(f, req.content, req.filename)
        gen == GenerateParityFiles(save.fs, save.path, c)
        wr == WriteMetadata(gen.fs, req.filename, gen.md)
    IN  IF req.method # "POST" THEN [fs |-> f] @@ HttpError(405)
        ELSE IF ~req.multipart THEN [fs |-> f] @@ HttpError(400)
        ELSE IF ~req.hasFile THEN [fs |-> f] @@ HttpError(400)
        ELSE IF req.filename = <<>> THEN [fs |-> f] @@ HttpError(400)
        ELSE IF ContainsSlash(req.filename) THEN [fs |-> f] @@ HttpError(400)
        ELSE IF save.err # "nil" THEN [fs |-> f] @@ HttpError(500)
        ELSE IF gen.err # "nil" THEN [fs |-> f] @@ HttpError(500)
        ELSE IF wr.err # "nil" THEN [fs |-> f] @@ HttpError(500)
        ELSE [fs |-> wr.fs, status |-> 200, body |-> [NoBody EXCEPT !.md = gen.md]]

\* a handler that stores the record under the filename of the uploaded part
submitDataHandlerHeaderName(f, c, req) ==
    LET save == SaveFile(f, req.content, req.part)
        gen == GenerateParityFiles(save.fs, save.path, c)
        wr == WriteMetadata(gen.fs, req.part, gen.md)
    IN  IF req.method # "POST" THEN [fs |-> f] @@ HttpError(405)
        ELSE IF ~req.multipart THEN [fs |-> f] @@ HttpError(400)
        ELSE IF ~req.hasFile THEN [fs |-> f] @@ HttpError(400)
        ELSE IF req.filename = <<>> THEN [fs |-> f] @@ HttpError(400)
        ELSE IF ContainsSlash(req.filename) THEN [fs |-> f] @@ HttpError(400)
        ELSE IF save.err # "nil" THEN [fs |-> save.fs] @@ HttpError(500)
        ELSE IF gen.err # "nil" THEN [fs |-> gen.fs] @@ HttpError(500)
        ELSE IF wr.err # "nil" THEN [fs |-> wr.fs] @@ HttpError(500)
        ELSE [fs |-> wr.fs, status |-> 200, body |-> [NoBody EXCEPT !.md = gen.md]]

submitDataHandler(f, c, req) ==
    LET save == SaveFile(f, req.content, req.filename)
        gen == GenerateParityFiles(save.fs, save.path, c)
        wr == WriteMetadata(gen.fs, req.filename, gen.md)
    IN  IF req.method # "POST" THEN [fs |-> f] @@ HttpError(405)
        ELSE IF ~req.multipart THEN [fs |-> f] @@ HttpError(400)
        ELSE IF ~req.hasFile THEN [fs |-> f] @@ HttpError(400)
        ELSE IF req.filename = <<>> THEN [fs |-> f] @@ HttpError(400)
        ELSE IF ContainsSlash(req.filename) THEN [fs |-> f] @@ HttpError(400)
        ELSE IF save.err # "nil" THEN [fs |-> save.fs] @@ HttpError(500)
        ELSE IF gen.err # "nil" THEN [fs |-> gen.fs] @@ HttpError(500)
        ELSE IF wr.err # "nil" THEN [fs |-> wr.fs] @@ HttpError(500)
        ELSE [fs |-> wr.fs, status |-> 200, body |-> [NoBody EXCEPT !.md = gen.md]]

----------------------------------------------------------------------------
(* Requests and the environment                                            *)

ContentBytes == {0, 1}     \* the byte values uploads are made of

Contents == UNION {[1..n -> ContentBytes] : n \in 0..MaxLen}

\* -data-shards / -parity-shards of the server
Configs ==
    {[DataShards |-> 2, ParityShards |-> 1],
     [DataShards |-> 2, ParityShards |-> 2],
     [DataShards |-> 3, ParityShards |-> 1]}

NameA == <<"a">>
NameB == <<"b">>
NameSlash == <<"a", "/", "b">>

\* the record at fname has its primary file, its metadata and every parity file
Complete(f, fname) ==
    /\ fname \in DOMAIN f
    /\ ReadMetadata(f, fname).err = "nil"
    /\ \A i \in 1..ReadMetadata(f, fname).md.parityShards :
           ParityPath(fname, i) \in DOMAIN f

\* the corrupt shards of a complete record (none when it is not complete)
CorruptOf(f, fname) ==
    IF Complete(f, fname)
    THEN CorruptShards(ShardsOf(f, fname, ReadMetadata(f, fname).md),
                       ReadMetadata(f, fname).md)
    ELSE {}

\* What is remembered of a request: the request, the response, what it did to
\* the files and, for a repair, the state of the record it found.
Event(op, method, name, rsp, before, after) ==
    [op |-> op, method |-> method, name |-> name, part |-> <<>>,
     formOk |-> TRUE,
     status |-> rsp.status, body |-> rsp.body,
     written |-> Changed(before, after),
     created |-> DOMAIN after \ DOMAIN before,
     fresh |-> name \notin asked,
     complete |-> op = "repair" /\ Complete(before, name),
     pre |-> IF op = "repair" THEN CorruptOf(before, name) ELSE {}]

NoEvent ==
    [op |-> "init", method |-> "", name |-> <<>>, part |-> <<>>,
     formOk |-> TRUE,
     status |-> 0, body |-> NoBody,
     written |-> {}, created |-> {}, fresh |-> FALSE,
     complete |-> FALSE, pre |-> {}]

InitCommon ==
    /\ fs = <<>>
    /\ cfg \in Configs
    /\ last = NoEvent
    /\ orig = <<>>
    /\ asked = {}
    /\ procs = <<>>

\* POST /submit_data
SubmitReq(req) ==
    LET r == submitDataHandler(fs, cfg, req)
    IN  /\ fs' = r.fs
        /\ last' = [Event("submit", req.method, req.filename, r, fs, r.fs)
                        EXCEPT !.formOk = req.multipart /\ req.hasFile,
                               !.part = req.part]
        /\ orig' = IF r.status = 200 THEN (req.filename :> req.content) @@ orig
                   ELSE orig
        /\ asked' = IF r.status \in {400, 405} THEN asked ELSE asked \cup {req.filename}
        /\ UNCHANGED <<cfg, procs, upload>>

\* GET /check_data/{name}
CheckReq(method, name) ==
    LET r == checkDataHandler(fs, method, CheckRoute \o name)
        after == checkDataFiles(fs, method, CheckRoute \o name)
    IN  /\ fs' = after
        /\ last' = Event("check", method, name, r, fs, after)
        /\ UNCHANGED <<cfg, orig, asked, procs, upload>>

\* GET /retrieve_data/{name}
RetrieveReq(method, name) ==
    LET r == retrieveDataHandler(fs, method, RetrieveRoute \o name)
        after == retrieveDataFiles(fs, method, RetrieveRoute \o name)
    IN  /\ fs' = after
        /\ last' = Event("retrieve", method, name, r, fs, after)
        /\ UNCHANGED <<cfg, orig, asked, procs, upload>>

\* GET /repair_data/{name}
RepairReq(method, name) ==
    LET r == repairDataHandler(fs, method, RepairRoute \o name)
    IN  /\ fs' = r.fs
        /\ last' = Event("repair", method, name, r, fs, r.fs)
        /\ UNCHANGED <<cfg, orig, asked, procs, upload>>

\* GET /repair_data/{name}, served while the codec fails to reconstruct
RepairReqCodecError(method, name) ==
    LET r == repairDataHandlerOn(fs, method, RepairRoute \o name,
                                 RepairDataCodecError(fs, name))
    IN  /\ fs' = r.fs
        /\ last' = Event("repair", method, name, r, fs, r.fs)
        /\ UNCHANGED <<cfg, orig, asked, procs, upload>>

\* GET /list_data (of a root of at most MaxFiles files); ListData opens the
\* directory and reads its entries, no file of the root
ListReq(method) ==
    /\ Cardinality(DOMAIN fs) <= MaxFiles
    /\ \E names \in Readdirnames(fs) :
           last' = Event("list", method, <<>>, listDataHandler(names, method), fs, fs)
    /\ UNCHANGED <<fs, cfg, orig, asked, procs, upload>>

\* A well-formed submit request: `filename` is the form field, `part` the
\* filename attached to the uploaded `file` part (a client sends what it likes).
Upload(name, content) ==
    [method |-> "POST", multipart |-> TRUE, hasFile |-> TRUE,
     filename |-> name, part |-> name, content |-> content]

\* The files of the records as their Submit left them.
RECURSIVE Pristine(_)
Pristine(names) ==
    IF names = {} THEN <<>>
    ELSE LET n == CHOOSE x \in names : TRUE
         IN  submitDataHandler(Pristine(names \ {n}), cfg, Upload(n, orig[n])).fs

\* The number of stored bytes that differ from what Submit wrote (a byte a
\* Repair appended past the original end counts when it is not zero).
RECURSIVE Damage(_, _, _)
Damage(f, good, paths) ==
    IF paths = {} THEN 0
    ELSE LET p == CHOOSE x \in paths : TRUE
             was == IF p \in DOMAIN good THEN good[p].bytes ELSE <<>>
         IN  Cardinality({i \in 1..Len(f[p].bytes) :
                            f[p].bytes[i] # (IF i <= Len(was) THEN was[i] ELSE 0)})
               + Damage(f, good, paths \ {p})

\* A stored byte goes bad: one byte of a stored shard takes another value.
Corrupt ==
    /\ Damage(fs, Pristine(DOMAIN orig), DOMAIN fs) < MaxCorrupt
    /\ \E path \in DOMAIN fs :
           /\ fs[path].kind = "raw"
           /\ \E pos \in 1..Len(fs[path].bytes), val \in Byte :
                  /\ val # fs[path].bytes[pos]
                  /\ fs' = [fs EXCEPT ![path] =
                                Raw([fs[path].bytes EXCEPT ![pos] = val])]
    /\ last' = [NoEvent EXCEPT !.op = "corrupt"]
    /\ UNCHANGED <<cfg, orig, asked, procs, upload>>

Init == InitCommon /\ upload \in Contents

Next ==
    \/ SubmitReq(Upload(NameA, upload))
    \/ CheckReq("GET", NameA)
    \/ RetrieveReq("GET", NameA)
    \/ RepairReq("GET", NameA)
    \/ Corrupt

Spec == Init /\ [][Next]_vars

----------------------------------------------------------------------------
(* The listing model: any files in the backup root, and List               *)

File1 == <<"f", "i", "l", "e", "1">>
File2 == <<"f", "i", "l", "e", "2">>

ListPool ==
    {File1, File2, ParityPath(File1, 1), ParityPath(File1, 2), ParityPath(File2, 10),
     MdPath(File1), ParityWord \o <<"7">>, File1 \o <<".">> \o ParityWord,
     ParityPath(File1, 1) \o <<"x">>, <<"1", ".", "p", "a", "r", "i", "t", "y">>}

\* os.Create in the backup root, as the tests' fillDirWithEmptyFiles does
CreateEmptyFile(name) ==
    /\ Cardinality(DOMAIN fs \cup {name}) <= MaxFiles
    /\ fs' = (name :> Raw(<<>>)) @@ fs
    /\ last' = [NoEvent EXCEPT !.op = "create", !.name = name]
    /\ UNCHANGED <<cfg, orig, asked, procs, upload>>

InitList ==
    InitCommon /\ upload = <<>> /\ cfg.ParityShards = 1 /\ cfg.DataShards = 2

NextList ==
    \/ \E name \in ListPool : CreateEmptyFile(name)
    \/ \E m \in {"GET", "POST"} : ListReq(m)

SpecList == InitList /\ [][NextList]_vars

----------------------------------------------------------------------------
(* The request model: every form of request, over names that share files   *)

ApiNames == {NameA, MdPath(NameA), ParityPath(NameA, 1), ParityPath(NameA, 2)}

ApiContents == {<<>>, <<1>>}

\* well-formed uploads, and one request for each way of being malformed
ApiSubmits ==
    {Upload(n, c) : n \in ApiNames \cup {<<>>, NameSlash}, c \in ApiContents}
        \cup {[Upload(NameA, <<>>) EXCEPT !.method = "GET"],
              [Upload(NameA, <<>>) EXCEPT !.multipart = FALSE],
              [Upload(NameA, <<>>) EXCEPT !.hasFile = FALSE],
              [Upload(NameSlash, <<>>) EXCEPT !.method = "GET"],
              [Upload(NameA, <<>>) EXCEPT !.part = NameB],
              [Upload(NameA, <<1>>) EXCEPT !.part = NameSlash],
              [Upload(MdPath(NameA), <<1>>) EXCEPT !.part = NameA],
              [Upload(<<>>, <<1>>) EXCEPT !.part = NameB]}

\* method and {name} of the check, retrieve and repair requests
ApiGets ==
    ({"GET"} \X {NameA, MdPath(NameA), NameB, <<>>, NameSlash})
        \cup ({"POST"} \X {NameA, <<>>, NameSlash})

InitApi == InitCommon /\ upload = <<>> /\ cfg.DataShards = 2

NextApi ==
    \/ \E req \in ApiSubmits : SubmitReq(req)
    \/ \E g \in ApiGets : CheckReq(g[1], g[2])
    \/ \E g \in ApiGets : RetrieveReq(g[1], g[2])
    \/ \E g \in ApiGets : RepairReq(g[1], g[2])
    \/ \E m \in {"GET", "POST"} : ListReq(m)

SpecApi == InitApi /\ [][NextApi]_vars

----------------------------------------------------------------------------
(* The concurrent model: submit requests that interleave at their file     *)
(* system calls                                                            *)

ConcNames == {NameA, ParityPath(NameA, 1)}

ConcContents == {<<>>, <<1>>, <<0, 1, 1>>}

Idle ==
    [pc |-> "idle", name |-> <<>>, content |-> <<>>, i |-> 0, md |-> NoMd,
     status |-> 0, touched |-> {}]

\* the request is done with the given status
Respond(p, status) ==
    procs' = [procs EXCEPT ![p].pc = "done", ![p].status = status]

\* A well-formed upload arrives: the handler's checks pass.
StartSubmit(p, name, content) ==
    /\ procs[p].pc = "idle"
    /\ name # <<>> /\ ~ContainsSlash(name)
    /\ procs' = [procs EXCEPT ![p].pc = "save", ![p].name = name,
                              ![p].content = content]
    /\ UNCHANGED <<fs, cfg, last, orig, asked, upload>>

\* SaveFile: os.OpenFile with O_EXCL
SaveOpenStep(p) ==
    LET r == SaveFileOpen(fs, procs[p].name)
    IN  /\ procs[p].pc = "save"
        /\ fs' = r.fs
        /\ IF r.err # "nil" THEN Respond(p, 500)
           ELSE procs' = [procs EXCEPT ![p].pc = "copy",
                                       ![p].touched = @ \cup {procs[p].name}]
        /\ UNCHANGED <<cfg, last, orig, asked, upload>>

\* a handler that writes the metadata right after the data file
SaveCopyStepThenMetadata(p) ==
    /\ procs[p].pc = "copy"
    /\ fs' = WriteAll(fs, procs[p].name, Raw(procs[p].content))
    /\ procs' = [procs EXCEPT ![p].pc = "mdopen"]
    /\ UNCHANGED <<cfg, last, orig, asked, upload>>

\* SaveFile: io.Copy of the upload into the file just created
SaveCopyStep(p) ==
    /\ procs[p].pc = "copy"
    /\ fs' = WriteAll(fs, procs[p].name, Raw(procs[p].content))
    /\ procs' = [procs EXCEPT ![p].pc = IF cfg.ParityShards = 0 THEN "encode"
                                        ELSE "parity",
                              ![p].i = 1]
    /\ UNCHANGED <<cfg, last, orig, asked, upload>>

\* GenerateParityFiles: os.OpenFile with O_EXCL of the next parity file
ParityOpenStep(p) ==
    LET path == ParityPath(procs[p].name, procs[p].i)
        r == CreateExcl(fs, path)
    IN  /\ procs[p].pc = "parity"
        /\ fs' = r.fs
        /\ IF r.err # "nil" THEN Respond(p, 500)
           ELSE procs' = [procs EXCEPT
                    ![p].pc = IF procs[p].i = cfg.ParityShards THEN "encode"
                              ELSE "parity",
                    ![p].i = @ + 1,
                    ![p].touched = @ \cup {path}]
        /\ UNCHANGED <<cfg, last, orig, asked, upload>>

\* an Encode that computes the hashes and leaves the parity files empty
EncodeStepHashesOnly(p) ==
    LET bytes == fs[procs[p].name].bytes
        enc == Encode(SplitIntoPaddedChunks(bytes, Len(bytes), cfg.DataShards),
                      Len(bytes), cfg.DataShards, cfg.ParityShards)
    IN  /\ procs[p].pc = "encode"
        /\ fs' = fs
        /\ procs' = [procs EXCEPT ![p].pc = "mdopen", ![p].md = enc.md]
        /\ UNCHANGED <<cfg, last, orig, asked, upload>>

\* GenerateParityFiles: Encode reads the data file and fills the parity files
EncodeStep(p) ==
    LET bytes == fs[procs[p].name].bytes
        enc == Encode(SplitIntoPaddedChunks(bytes, Len(bytes), cfg.DataShards),
                      Len(bytes), cfg.DataShards, cfg.ParityShards)
    IN  /\ procs[p].pc = "encode"
        /\ fs' = WriteParityShards(fs, procs[p].name, enc.parity, cfg.ParityShards)
        /\ procs' = [procs EXCEPT ![p].pc = "mdopen", ![p].md = enc.md]
        /\ UNCHANGED <<cfg, last, orig, asked, upload>>

\* WriteMetadata: os.OpenFile with O_EXCL
MdOpenStep(p) ==
    LET path == MdPath(procs[p].name)
        r == CreateExcl(fs, path)
    IN  /\ procs[p].pc = "mdopen"
        /\ fs' = r.fs
        /\ IF r.err # "nil" THEN Respond(p, 500)
           ELSE procs' = [procs EXCEPT ![p].pc = "mdwrite",
                                       ![p].touched = @ \cup {path}]
        /\ UNCHANGED <<cfg, last, orig, asked, upload>>

\* WriteMetadata: the JSON encoding is written; the handler answers 200
MdWriteStep(p) ==
    /\ procs[p].pc = "mdwrite"
    /\ fs' = WriteAll(fs, MdPath(procs[p].name), Json(procs[p].md))
    /\ Respond(p, 200)
    /\ UNCHANGED <<cfg, last, orig, asked, upload>>

InitConc ==
    /\ fs = <<>>
    /\ cfg \in Configs
    /\ last = NoEvent
    /\ orig = <<>>
    /\ asked = {}
    /\ procs = [p \in 1..NProcs |-> Idle]
    /\ upload = <<>>

\* The submits step one file system call at a time; a Check of "a" is served
\* between any two of their steps.
NextConc ==
    \/ \E p \in 1..NProcs :
           \/ \E name \in ConcNames, content \in ConcContents :
                  StartSubmit(p, name, content)
           \/ SaveOpenStep(p)
           \/ SaveCopyStep(p)
           \/ ParityOpenStep(p)
           \/ EncodeStep(p)
           \/ MdOpenStep(p)
           \/ MdWriteStep(p)
    \/ CheckReq("GET", NameA)

SpecConc == InitConc /\ [][NextConc]_vars

----------------------------------------------------------------------------
(* The fault model: one record whose files can be lost, whose metadata can *)
(* become undecodable, whose bytes can go bad and whose codec can fail     *)

FaultContents == {<<>>, <<0, 1, 1>>}

\* A file of the backup root is lost.
Lose(path) ==
    /\ path \in DOMAIN fs
    /\ fs' = [q \in DOMAIN fs \ {path} |-> fs[q]]
    /\ last' = [NoEvent EXCEPT !.op = "lose", !.name = path]
    /\ UNCHANGED <<cfg, orig, asked, procs, upload>>

InitFault == InitCommon /\ upload \in FaultContents

NextFault ==
    \/ SubmitReq(Upload(NameA, upload))
    \/ CheckReq("GET", NameA)
    \/ RetrieveReq("GET", NameA)
    \/ RepairReq("GET", NameA)
    \/ RepairReqCodecError("GET", NameA)
    \/ Corrupt
    \/ \E path \in DOMAIN fs : Lose(path)
    \/ CreateEmptyFile(MdPath(NameA))
    \/ ListReq("GET")

SpecFault == InitFault /\ [][NextFault]_vars

----------------------------------------------------------------------------
(* The chunker model: one record under every shard count, split and joined *)

MaxShards == 3   \* largest -data-shards
MaxParity == 1   \* largest -parity-shards

ChunkConfigs ==
    [DataShards : 1..MaxShards, ParityShards : 0..MaxParity]

RECURSIVE Concat(_)
Concat(shards) ==
    IF shards = <<>> THEN <<>> ELSE Head(shards) \o Concat(Tail(shards))

\* join: the shards concatenated and cut to the recorded length
Join(shards, totalLength) ==
    LET all == Concat(shards)
    IN  [i \in 1..(IF totalLength < Len(all) THEN totalLength ELSE Len(all))
            |-> all[i]]

\* The data windows of the record `name`, split as CheckData splits the
\* primary file by the metadata's size and count, are joined again.
JoinShards(name) ==
    /\ Complete(fs, name)
    /\ LET md == ReadMetadata(fs, name).md
           windows == SplitIntoPaddedChunks(fs[name].bytes, md.size, md.dataShards)
       IN  last' = [NoEvent EXCEPT !.op = "join", !.name = name,
                        !.body = [NoBody EXCEPT
                                      !.content = Raw(Join(windows, md.size))]]
    /\ UNCHANGED <<fs, cfg, orig, asked, procs, upload>>

InitChunk ==
    /\ fs = <<>>
    /\ cfg \in ChunkConfigs
    /\ last = NoEvent
    /\ orig = <<>>
    /\ asked = {}
    /\ procs = <<>>
    /\ upload \in Contents

NextChunk ==
    \/ SubmitReq(Upload(NameA, upload))
    \/ JoinShards(NameA)

SpecChunk == InitChunk /\ [][NextChunk]_vars

----------------------------------------------------------------------------
(* The edit model: one record whose primary file grows and shrinks at its  *)
(* end                                                                     *)

MaxAppend == 1   \* bytes the primary file may hold past the submitted length

\* A byte is appended to the primary file of the record `name`.
AppendByte(name) ==
    /\ name \in DOMAIN fs /\ name \in DOMAIN orig
    /\ Len(fs[name].bytes) < Len(orig[name]) + MaxAppend
    /\ \E val \in ContentBytes :
           fs' = [fs EXCEPT ![name] = Raw(Append(fs[name].bytes, val))]
    /\ last' = [NoEvent EXCEPT !.op = "append", !.name = name]
    /\ UNCHANGED <<cfg, orig, asked, procs, upload>>

\* The last byte of the primary file of the record `name` is cut off.
CutByte(name) ==
    /\ name \in DOMAIN fs /\ name \in DOMAIN orig
    /\ Len(fs[name].bytes) > 0
    /\ fs' = [fs EXCEPT ![name] =
                  Raw(SubSeq(fs[name].bytes, 1, Len(fs[name].bytes) - 1))]
    /\ last' = [NoEvent EXCEPT !.op = "cut", !.name = name]
    /\ UNCHANGED <<cfg, orig, asked, procs, upload>>

InitEdit == InitCommon /\ upload \in Contents

NextEdit ==
    \/ SubmitReq(Upload(NameA, upload))
    \/ AppendByte(NameA)
    \/ CutByte(NameA)
    \/ CheckReq("GET", NameA)
    \/ RetrieveReq("GET", NameA)

SpecEdit == InitEdit /\ [][NextEdit]_vars

----------------------------------------------------------------------------
(* The configuration model: the server is restarted with other shard       *)
(* counts between the requests                                             *)

\* The server is restarted with other -data-shards / -parity-shards.
Reconfigure ==
    /\ \E c \in Configs : c # cfg /\ cfg' = c
    /\ last' = [NoEvent EXCEPT !.op = "reconfigure"]
    /\ UNCHANGED <<fs, orig, asked, procs, upload>>

InitConfig == InitCommon /\ upload \in Contents

NextConfig ==
    \/ \E name \in {NameA, NameB} : SubmitReq(Upload(name, upload))
    \/ \E name \in {NameA, NameB} : CheckReq("GET", name)
    \/ Reconfigure

SpecConfig == InitConfig /\ [][NextConfig]_vars

----------------------------------------------------------------------------
(* Claims                                                                  *)

\* what a Check of the record `name` answers in the current state
CheckNow(name) == checkDataHandler(fs, "GET", CheckRoute \o name)

\* what a Retrieve of the record `name` answers in the current state
RetrieveNow(name) == retrieveDataHandler(fs, "GET", RetrieveRoute \o name)

\* the parity count of the record, from its metadata
ParityCount(name) == ReadMetadata(fs, name).md.parityShards

\* the last request was a Repair of a complete record with some corrupt shards
RepairedSome ==
    /\ last.op = "repair"
    /\ last.complete
    /\ last.pre # {}

\* C1: right after a Submit answered 200, a Check of that name answers 200 with
\* health = true and as many hashes as the configured data plus parity shards,
\* whatever the length of the content (0 and non-multiples of the data shard
\* count included).
C1_CheckAfterSubmit ==
    (last.op = "submit" /\ last.status = 200) =>
        /\ CheckNow(last.name).status = 200
        /\ CheckNow(last.name).body.health
        /\ Len(CheckNow(last.name).body.hashes) = cfg.DataShards + cfg.ParityShards

\* C1 witness: a 3-byte content was submitted with 2 data shards.
C1_Witness ==
    /\ last.op = "submit" /\ last.status = 200
    /\ Len(orig[last.name]) = 3
    /\ cfg.DataShards = 2

\* C2: a Repair of a complete record with k corrupt shards, 1 <= k <= parity
\* count, answers 200 "GOOD", and a Check of the name then reports health = true.
C2_RepairHeals ==
    (RepairedSome /\ Cardinality(last.pre) <= ParityCount(last.name)) =>
        /\ last.status = 200
        /\ last.body.rstatus = Good
        /\ CheckNow(last.name).status = 200
        /\ CheckNow(last.name).body.health

\* C2 witness: a data shard and a parity shard were corrupt and Repair said GOOD.
C2_Witness ==
    /\ RepairedSome
    /\ last.pre = {1, 3}
    /\ ParityCount(last.name) = 2
    /\ last.body.rstatus = Good

C4_Unrecoverable ==
    (RepairedSome /\ Cardinality(last.pre) > ParityCount(last.name)) =>
        /\ last.status = 200
        /\ last.body.rstatus =
               CannotRepair(Cardinality(last.pre), ParityCount(last.name))
        /\ last.written = {}

\* C4 witness: two shards corrupt, one parity shard, and the message was sent.
C4_Witness ==
    /\ RepairedSome
    /\ Cardinality(last.pre) = 2
    /\ ParityCount(last.name) = 1
    /\ last.body.rstatus.text = "Cannot repair data"

\* C11: a Check, a Retrieve or a List, whatever its status (200, 400, 404, 405,
\* 500), creates, changes and deletes no file of the backup root.
C11_ReadsDoNotMutate ==
    (last.op \in {"check", "retrieve", "list"}) =>
        /\ last.written = {}
        /\ last.created = {}

\* C11 witness: a Check of "a.md", the metadata file of record "a", was answered
\* 500 because "a.md.md" is missing.
C11_Witness ==
    /\ last.op = "check" /\ last.name = MdPath(NameA)
    /\ last.status = 500
    /\ NameA \in DOMAIN orig

\* the bytes that shard k of the record holds now: for a data shard the window
\* of the primary file, bounded by the metadata's size and padded with zeros,
\* for a parity shard the parity file
ShardNow(name, k) ==
    LET md == ReadMetadata(fs, name).md
        ss == (md.size + md.dataShards - 1) \div md.dataShards
        b == fs[name].bytes
    IN  IF k > md.dataShards THEN fs[ParityPath(name, k - md.dataShards)].bytes
        ELSE [p \in 1..ss |->
                 IF (k - 1) * ss + p <= md.size /\ (k - 1) * ss + p <= Len(b)
                 THEN b[(k - 1) * ss + p] ELSE 0]

\* the record's shards whose hash is the one the metadata records
AllShardsMatch(name) ==
    LET md == ReadMetadata(fs, name).md
    IN  \A k \in 1..(md.dataShards + md.parityShards) :
            Hash(ShardNow(name, k)) = md.hashes[k]

\* C12: a Check of a complete record answers 200; its health is true exactly
\* when the hash of every data and parity shard equals the recorded one, and
\* its hashes are the metadata's reference hashes, healthy or not.
C12_HealthIffHashesMatch ==
    (last.op = "check" /\ last.method = "GET" /\ Complete(fs, last.name)) =>
        /\ last.status = 200
        /\ last.body.health = AllShardsMatch(last.name)
        /\ last.body.hashes = ReadMetadata(fs, last.name).md.hashes
        /\ Len(last.body.hashes) = cfg.DataShards + cfg.ParityShards

\* C12 witness: only the parity shard of a record with two data shards is
\* corrupt, and Check answered health = false.
C12_Witness ==
    /\ last.op = "check" /\ last.status = 200
    /\ Complete(fs, last.name)
    /\ cfg.DataShards = 2
    /\ ~last.body.health
    /\ Hash(ShardNow(last.name, 1)) = last.body.hashes[1]
    /\ Hash(ShardNow(last.name, 2)) = last.body.hashes[2]

\* the file was there before the last request
ExistedBefore(path) == path \in DOMAIN fs /\ path \notin last.created

\* C13: a Check is answered 404 exactly when the primary file is missing,
\* whatever else of the record exists; when the primary file is there and the
\* metadata is missing or undecodable or a parity file is missing, it is
\* answered 500.
C13_CheckNotFoundOrInternal ==
    (last.op = "check" /\ last.method = "GET" /\ last.name # <<>>
        /\ ~ContainsSlash(last.name)) =>
        /\ last.name \notin DOMAIN fs => last.status = 404
        /\ (last.name \in DOMAIN fs /\ ~Complete(fs, last.name)) => last.status = 500
        /\ Complete(fs, last.name) => last.status = 200

\* C13 witness: the primary file is lost, the metadata and a parity file are
\* there, and Check answered 404.
C13_Witness ==
    /\ last.op = "check" /\ last.status = 404
    /\ MdPath(last.name) \in DOMAIN fs
    /\ fs[MdPath(last.name)].kind = "json"
    /\ ParityPath(last.name, 1) \in DOMAIN fs

\* C14: when exactly one of the primary file and the metadata file of a name
\* exists, a Check and a Repair of the name are answered with an error status
\* and create or rewrite no file.
C14_PartialRecordReported ==
    (/\ last.op \in {"check", "repair"}
     /\ last.method = "GET"
     /\ ExistedBefore(last.name) # ExistedBefore(MdPath(last.name))) =>
        /\ last.status \in {404, 500}
        /\ last.written = {}
        /\ last.created = {}

\* C14 witness: a Repair of a name that has its metadata and its parity file but
\* no primary file was answered with an error.
C14_Witness ==
    /\ last.op = "repair" /\ last.status \in {404, 500}
    /\ last.name \notin DOMAIN fs
    /\ MdPath(last.name) \in DOMAIN fs
    /\ fs[MdPath(last.name)].kind = "json"
    /\ ParityPath(last.name, 1) \in DOMAIN fs

C18_OnlyUnrecoverableIs200 ==
    (last.op = "repair" /\ last.status = 200) =>
        \/ last.body.rstatus = Good
        \/ last.body.rstatus.text = "Cannot repair data"

\* what a Repair of the record `name` would do in the current state
RepairNow(name) == repairDataHandler(fs, "GET", RepairRoute \o name)

\* C19: a Repair of a complete record without a corrupt shard answers 200 "GOOD"
\* and writes nothing; so after a Repair that answered "GOOD" another Repair
\* answers "GOOD" and leaves every file as it is.
C19_RepairIdempotent ==
    /\ (last.op = "repair" /\ last.complete /\ last.pre = {}) =>
            /\ last.status = 200
            /\ last.body.rstatus = Good
            /\ last.written = {}
    /\ (last.op = "repair" /\ last.status = 200 /\ last.body.rstatus = Good) =>
            /\ RepairNow(last.name).status = 200
            /\ RepairNow(last.name).body.rstatus = Good
            /\ RepairNow(last.name).fs = fs

\* C19 witness: a Repair found no corrupt shard in a record that an earlier
\* Repair had rewritten (its primary file is longer than the content submitted).
C19_Witness ==
    /\ last.op = "repair" /\ last.complete /\ last.pre = {}
    /\ last.body.rstatus = Good
    /\ Len(fs[last.name].bytes) > Len(orig[last.name])

\* byte range k of n of a file of a record of `size` bytes is the same in b and c
SameRange(b, c, size, n, k) ==
    LET ss == (size + n - 1) \div n
    IN  \A off \in ((k - 1) * ss + 1)..(k * ss) :
            /\ (off <= Len(b)) = (off <= Len(c))
            /\ off <= Len(b) => b[off] = c[off]

\* C20: a Repair that answers "GOOD" for a record with corrupt shards leaves the
\* metadata file, every healthy parity file and the byte range of every healthy
\* data shard of the primary file as they were.
C20_RepairRewritesOnlyCorrupt ==
    [][(/\ last'.op = "repair" /\ last'.status = 200
        /\ last'.body.rstatus = Good
        /\ last'.complete /\ last'.pre # {}) =>
           LET name == last'.name
               md == ReadMetadata(fs, name).md
           IN  /\ fs'[MdPath(name)] = fs[MdPath(name)]
               /\ DOMAIN fs' = DOMAIN fs
               /\ \A i \in 1..md.parityShards :
                      (md.dataShards + i) \notin last'.pre =>
                          fs'[ParityPath(name, i)] = fs[ParityPath(name, i)]
               /\ \A k \in 1..md.dataShards :
                      k \notin last'.pre =>
                          SameRange(fs[name].bytes, fs'[name].bytes,
                                    md.size, md.dataShards, k)]_vars

\* C20 witness: the second of two data shards was corrupt, the first and the
\* parity shards were not, and Repair answered "GOOD".
C20_Witness ==
    /\ last.op = "repair" /\ last.status = 200
    /\ last.body.rstatus = Good
    /\ last.complete /\ last.pre = {2}
    /\ cfg.DataShards = 2 /\ cfg.ParityShards = 2

\* the name is one or more digits after "parity."
EndsInParityDigits(name) ==
    \E k \in 1..(Len(name) - 1) :
        /\ \A i \in (k + 1)..Len(name) : IsDigit(name[i])
        /\ k >= Len(ParityWord)
        /\ SubSeq(name, k - Len(ParityWord) + 1, k) = ParityWord

\* C9: whatever files the backup root holds, List returns exactly the names that
\* do not end in "parity.<digits>", each once, in strictly ascending bytewise
\* order; for file1, file2, file1.parity.1, file1.parity.2 that is file1, file2.
C9_ListFilteredSorted ==
    (last.op = "list" /\ last.status = 200) =>
        LET files == last.body.files
        IN  /\ \A i \in 1..Len(files) : ~EndsInParityDigits(files[i])
            /\ \A i, j \in 1..Len(files) : i < j => StrLess(files[i], files[j])
            /\ {files[i] : i \in 1..Len(files)} =
                   {n \in DOMAIN fs : ~EndsInParityDigits(n)}
            /\ (DOMAIN fs = {File1, File2, ParityPath(File1, 1), ParityPath(File1, 2)}
                    => files = <<File1, File2>>)

\* C9 witness: the root of TestListDataHandler was listed.
C9_Witness ==
    /\ last.op = "list" /\ last.status = 200
    /\ DOMAIN fs = {File1, File2, ParityPath(File1, 1), ParityPath(File1, 2)}
    /\ last.body.files = <<File1, File2>>

\* the last request was an upload that passed the handler's validation
ValidSubmit ==
    /\ last.op = "submit"
    /\ last.method = "POST"
    /\ last.formOk
    /\ last.name # <<>>
    /\ ~ContainsSlash(last.name)

\* C6: operations on one name do not depend on operations on other names; in
\* particular the first Submit of a valid name succeeds whatever was done under
\* other names, as it does in an empty root.
C6_NamesIndependent ==
    (ValidSubmit /\ last.fresh) => last.status = 200

\* the primary file or a parity file of the submitted name was there before
Collided ==
    \E p \in {last.name} \cup {ParityPath(last.name, i) : i \in 1..cfg.ParityShards} :
        p \in DOMAIN fs /\ p \notin last.created

\* C7: a Submit whose primary file or one of whose parity files exists already
\* is answered 500 and changes no file that existed before it.
C7_CollisionKeepsFiles ==
    (ValidSubmit /\ Collided) =>
        /\ last.status = 500
        /\ last.written \subseteq last.created

\* C7 witness: the second parity file existed; the primary file and the first
\* parity file were created before the Submit failed.
C7_Witness ==
    /\ ValidSubmit /\ Collided
    /\ last.status = 500
    /\ last.created = {NameA, ParityPath(NameA, 1)}

\* C8: a Submit that is answered 400 or 405 leaves the backup root as it was; a
\* filename with a path separator, an empty or missing filename and a missing
\* file field are answered 400, another method than POST 405.
C8_RejectedSubmitWritesNothing ==
    (last.op = "submit") =>
        /\ last.status \in {400, 405} => last.written = {}
        /\ last.method # "POST" => last.status = 405
        /\ (last.method = "POST" /\ ~last.formOk) => last.status = 400
        /\ (last.method = "POST" /\ last.name = <<>>) => last.status = 400
        /\ (last.method = "POST" /\ ContainsSlash(last.name)) => last.status = 400

\* C8 witness: an upload named "a/b" was rejected while the root held files.
C8_Witness ==
    /\ last.op = "submit" /\ last.method = "POST" /\ last.formOk
    /\ last.name = NameSlash
    /\ last.status = 400
    /\ DOMAIN fs # {}

\* C10: every name List returns is the name of a record that was submitted.
C10_ListOnlyRecords ==
    (last.op = "list" /\ last.status = 200) =>
        \A i \in 1..Len(last.body.files) : last.body.files[i] \in asked

\* C17: a Submit that fails after it created the primary file leaves the file
\* on disk, and a Submit of a name that was submitted before, with or without
\* success, is answered 500; so at most one Submit of a name is answered 200.
C17_NoRollbackNoRetry ==
    ValidSubmit =>
        /\ (last.status = 500 /\ ~ExistedBefore(last.name)) => last.name \in DOMAIN fs
        /\ ~last.fresh => last.status = 500
        /\ last.status = 200 => last.fresh

\* C17 witness: an earlier Submit of the name failed partway (the primary file is
\* there, the metadata file is not), and the Submit of the name was answered 500.
C17_Witness ==
    /\ ValidSubmit /\ ~last.fresh
    /\ last.status = 500
    /\ ExistedBefore(last.name)
    /\ MdPath(last.name) \notin DOMAIN fs

\* the parity shards of a content under the server's configuration
ParityOf(content) ==
    Encode(SplitIntoPaddedChunks(content, Len(content), cfg.DataShards),
           Len(content), cfg.DataShards, cfg.ParityShards).parity

Won(p) == procs[p].name \in procs[p].touched

\* requests p and q are two submits of one name that both tried to create the
\* primary file, which no third request has created
Race(p, q) ==
    /\ p # q
    /\ procs[p].name = procs[q].name
    /\ procs[p].pc \notin {"idle", "save"}
    /\ procs[q].pc \notin {"idle", "save"}
    /\ \A r \in DOMAIN procs \ {p, q} : procs[p].name \notin procs[r].touched

\* C5: of two concurrent Submits of one name exactly one creates the primary
\* file; the other is answered 500 and has created or written no file.
C5_OneWinner ==
    \A p, q \in DOMAIN procs :
        Race(p, q) =>
            /\ Won(p) # Won(q)
            /\ ~Won(q) => /\ procs[q].pc = "done"
                          /\ procs[q].status = 500
                          /\ procs[q].touched = {}

\* C5 witness: request 2 lost while request 1, the winner, was still encoding.
C5_Witness ==
    /\ Race(1, 2)
    /\ procs[1].pc = "encode"
    /\ procs[2].pc = "done" /\ procs[2].status = 500

\* the record `name` has its primary file and its metadata, has lost at least
\* one and at most all of its parity files, and every shard that is left has
\* the recorded hash
ParityLost(name) ==
    /\ name \in DOMAIN fs
    /\ ReadMetadata(fs, name).err = "nil"
    /\ \E i \in 1..ParityCount(name) : ParityPath(name, i) \notin DOMAIN fs
    /\ \A k \in 1..(ReadMetadata(fs, name).md.dataShards + ParityCount(name)) :
           (k <= ReadMetadata(fs, name).md.dataShards
               \/ ParityPath(name, k - ReadMetadata(fs, name).md.dataShards) \in DOMAIN fs)
           => Hash(ShardNow(name, k)) = ReadMetadata(fs, name).md.hashes[k]

\* C21: when up to P parity files of a record are deleted and nothing else is
\* damaged, a Check answers 200 with health = false, and a Repair then answers
\* "GOOD" and leaves a record whose Check answers health = true.
C21_LostParityRebuilt ==
    (last.op = "check" /\ last.method = "GET" /\ ParityLost(last.name)) =>
        /\ last.status = 200
        /\ last.body.health = FALSE
        /\ RepairNow(last.name).status = 200
        /\ RepairNow(last.name).body.rstatus = Good
        /\ checkDataHandler(RepairNow(last.name).fs, "GET",
                            CheckRoute \o last.name).body.health = TRUE


\* C22: a Retrieve of a name whose primary file exists answers 200 with the
\* file's current bytes, whatever the state of the metadata, of the parity
\* files and of the content; it answers 404 exactly when the primary file does
\* not exist.
C22_RetrieveVerbatim ==
    (last.op = "retrieve" /\ last.method = "GET") =>
        /\ last.name \in DOMAIN fs =>
               /\ last.status = 200
               /\ last.body.content.bytes = fs[last.name].bytes
        /\ last.name \notin DOMAIN fs <=> last.status = 404

\* C22 witness: the content was corrupted, the metadata and the parity file
\* were lost, and Retrieve answered 200.
C22_Witness ==
    /\ last.op = "retrieve" /\ last.status = 200
    /\ MdPath(NameA) \notin DOMAIN fs
    /\ ParityPath(NameA, 1) \notin DOMAIN fs
    /\ NameA \in DOMAIN orig
    /\ fs[NameA].bytes # orig[NameA]
    /\ last.body.content.bytes = fs[NameA].bytes

\* the paths of the record `name`: primary file, metadata file, parity files
RecordPaths(name) ==
    {name, MdPath(name)} \cup {ParityPath(name, i) : i \in 1..cfg.ParityShards}

\* C23: a Submit stores the record under the `filename` form field: a Submit
\* answered 200 has created exactly the paths derived from that field, and no
\* Submit creates or writes a path that is not derived from it, whatever filename
\* the uploaded `file` part carries.
C23_StoredUnderFilenameField ==
    last.op = "submit" =>
        /\ last.created \subseteq RecordPaths(last.name)
        /\ last.written \subseteq RecordPaths(last.name)
        /\ last.status = 200 =>
               /\ last.created = RecordPaths(last.name)
               /\ fs[last.name].bytes = orig[last.name]

\* C23 witness: a Submit whose `file` part was named "b" and whose filename
\* field was "a" was answered 200, and no file "b" exists.
C23_Witness ==
    /\ last.op = "submit" /\ last.status = 200
    /\ last.name = NameA /\ last.part = NameB
    /\ NameB \notin DOMAIN fs
    /\ last.created = RecordPaths(NameA)

\* the data windows of the record `name`, as CheckData splits them
WindowsNow(name) ==
    SplitIntoPaddedChunks(fs[name].bytes, ReadMetadata(fs, name).md.size,
                          ReadMetadata(fs, name).md.dataShards)

\* s is ceil(size / n)
IsCeilDiv(s, size, n) == s * n >= size /\ (s = 0 \/ (s - 1) * n < size)

\* C24: for every content, every data shard count >= 1 and every parity count
\* >= 0, the split is dataShards windows of ceil(size / dataShards) bytes each,
\* and joining them with the recorded length gives back the content exactly, the
\* empty content and lengths that are no multiple of the count included.
C24_SplitJoinRoundTrip ==
    last.op = "join" =>
        /\ Len(WindowsNow(last.name)) = cfg.DataShards
        /\ \A k \in 1..cfg.DataShards :
               IsCeilDiv(Len(WindowsNow(last.name)[k]),
                         Len(orig[last.name]), cfg.DataShards)
        /\ last.body.content.bytes = orig[last.name]

\* C24 witness: a content of three bytes that ends in a one, split in two
\* windows of two bytes (the second one padded), was joined.
C24_Witness ==
    /\ last.op = "join"
    /\ cfg.DataShards = 2
    /\ Len(orig[last.name]) = 3
    /\ orig[last.name][3] = 1
    /\ WindowsNow(last.name)[2] = <<1, 0>>
    /\ last.body.content.bytes = orig[last.name]

\* the status a check, retrieve or repair request is answered with over the files f
StatusOver(f, op, method, name) ==
    IF op = "check" THEN checkDataHandler(f, method, CheckRoute \o name).status
    ELSE IF op = "retrieve"
         THEN retrieveDataHandler(f, method, RetrieveRoute \o name).status
    ELSE repairDataHandler(f, method, RepairRoute \o name).status

\* C25: check, retrieve and repair validate in a fixed order: 405 when the
\* method is not GET, whatever the path and the files; else 400 when the path is
\* not the route and one non-empty segment; else 404 when the primary file does
\* not exist. A 405 or 400 is given without touching a file: nothing is created
\* or written, and the answer is the one given over an empty root.
C25_ValidationPrecedence ==
    last.op \in {"check", "retrieve", "repair"} =>
        /\ last.method # "GET" => last.status = 405
        /\ (last.method = "GET" /\ (last.name = <<>> \/ ContainsSlash(last.name)))
               => last.status = 400
        /\ (last.method = "GET" /\ last.name # <<>> /\ ~ContainsSlash(last.name)
                /\ last.name \notin DOMAIN fs) => last.status = 404
        /\ last.status \in {400, 405} =>
               /\ last.written = {} /\ last.created = {}
               /\ StatusOver(<<>>, last.op, last.method, last.name) = last.status

\* C25 witness: a POST to /check_data/a/b while record "a" exists was answered
\* 405, not 400.
C25_Witness ==
    /\ last.op = "check" /\ last.method = "POST" /\ last.name = NameSlash
    /\ last.status = 405
    /\ Complete(fs, NameA)

\* C27: every record whose Submit was answered 200 is in the files of every
\* later List, whatever its valid name, names that end in "parity.<digits>"
\* included.
C27_SubmittedIsListed ==
    (last.op = "list" /\ last.status = 200) =>
        \A name \in DOMAIN orig :
            \E i \in 1..Len(last.body.files) : last.body.files[i] = name

\* C26: whenever a Check answers health = true, the primary file, which is what
\* a Retrieve serves, is byte for byte and in length the submitted content, also
\* after bytes were appended to the file or cut off its end.
C26_HealthyMeansIdentical ==
    (last.op = "check" /\ last.status = 200 /\ last.body.health) =>
        /\ fs[last.name].bytes = orig[last.name]
        /\ RetrieveNow(last.name).status = 200
        /\ RetrieveNow(last.name).body.content.bytes = orig[last.name]

\* a Submit of `name` has been answered 200
Submitted(name) ==
    \E p \in DOMAIN procs :
        procs[p].name = name /\ procs[p].pc = "done" /\ procs[p].status = 200

\* C28: a Check served at any point between the file system steps of the
\* Submits is answered 404 or 500, or 200 with health = true; it answers 200
\* only for a record whose Submit has written its metadata, and never
\* health = false.
C28_CheckDuringSubmit ==
    last.op = "check" =>
        \/ last.status \in {404, 500}
        \/ /\ last.status = 200
           /\ last.body.health = TRUE
           /\ Submitted(last.name)

\* C28 witness: a Check of "a" was answered 500 while the Submit of "a" had
\* created its metadata file and had not written it yet.
C28_Witness ==
    /\ last.op = "check" /\ last.name = NameA /\ last.status = 500
    /\ \E p \in DOMAIN procs :
           /\ procs[p].name = NameA /\ procs[p].pc = "mdwrite"
           /\ procs[p].content = <<0, 1, 1>>
    /\ MdPath(NameA) \in DOMAIN fs

\* the metadata a Submit of the record `name` under the shard counts d and p writes
MetadataAt(name, d, p) ==
    submitDataHandler(<<>>, [DataShards |-> d, ParityShards |-> p],
                      Upload(name, orig[name])).body.md

\* C29: the result of a Check of a submitted record is the one right after its
\* Submit (200, health = true, the hashes of the shard counts it was submitted
\* under), whatever the server's shard counts have been changed to since.
C29_CheckIgnoresConfig ==
    (last.op = "check" /\ last.name \in DOMAIN orig) =>
        LET md == ReadMetadata(fs, last.name).md
        IN  /\ last.status = 200
            /\ last.body.health = TRUE
            /\ Len(last.body.hashes) = md.dataShards + md.parityShards
            /\ last.body.hashes =
                   MetadataAt(last.name, md.dataShards, md.parityShards).hashes

\* C29 witness: a record of three bytes submitted under 2 data and 2 parity
\* shards was checked healthy while the server ran with 3 and 1.
C29_Witness ==
    /\ last.op = "check" /\ last.status = 200 /\ last.body.health
    /\ last.name \in DOMAIN orig /\ Len(orig[last.name]) = 3
    /\ ReadMetadata(fs, last.name).md.dataShards = 2
    /\ ReadMetadata(fs, last.name).md.parityShards = 2
    /\ cfg = [DataShards |-> 3, ParityShards |-> 1]
    /\ Len(last.body.hashes) = 4

====
